---- MODULE Spec2Model ----
(***************************************************************************)
(* Model of the ITM link classifier: itm_classifier.compute_residuals and  *)
(* the classifier_worker.worker run around it, the geometry and table of   *)
(* report_card.generate_pdf_report, and the key pager of                   *)
(* fetch_hotspot_inventory.                                                *)
(*                                                                         *)
(* Numbers.  dB, dBm and km quantities are exact rationals [n, d] (d > 0,  *)
(* lowest terms); frequencies are integers in Hz, profile distances are    *)
(* integers in metres.  JSON values coming from the link source are tagged *)
(* records [t, v]: t = "num" for a number, t = "null" for null/None and    *)
(* t = "str" for a non-numeric value.                                      *)
(*                                                                         *)
(* Identifiers are sequences of one-character strings, so that             *)
(* str.strip("hotspots/") is modelled by what it does to the characters.   *)
(*                                                                         *)
(* External collaborators (hex grid, terrain tiles, propagation model) are *)
(* oracles: what they return for a link is carried in the link document's  *)
(* env field, fixed for the whole run (they are pure functions).           *)
(***************************************************************************)
EXTENDS Integers, Sequences, FiniteSets, TLC

VARIABLES
    witnesses,        \* the `witnesses` edge collection of the link source
    witness_pubkeys,  \* the worker's input list (rows of INPUT_CSV)
    cfg,              \* thresholds the worker passes to compute_residuals
    pc,               \* position of the worker
    edge_data,        \* rows fetched by the running batch compute_residuals
    idx,              \* next row of edge_data to evaluate (1-based)
    results,          \* `results` list of the running compute_residuals
    df,               \* data frame returned by the batch pass
    output_csv,       \* rows written to OUTPUT_CSV
    worst_edges,      \* rows chosen for reporting
    rep,              \* next row of worst_edges to report (1-based)
    itm_profile_result, \* what the latest report-pass compute_residuals returned
    reports,          \* argument records handed to generate_pdf_report
    report_cards,     \* what generate_pdf_report drew for each of them, in order
    log,              \* log lines emitted, in order
    calls,            \* invocations of np.average / itm.p2p / itm.path, in order
    hotspots,         \* the keys of the `hotspots` collection the pager reads
    batch_size,       \* --batch-size of save_hotspot_inventory
    max_batches,      \* --max-batches: NULL when not given
    offset,           \* `offset` of _yield_hotspot_pubkeys
    batch_count,      \* `batch_count` of _yield_hotspot_pubkeys
    gen,              \* position of the generator
    queries,          \* the queries executed: bind variables and results, in order
    batches,          \* the batches yielded, in order
    files             \* the batch files save_hotspot_inventory has written

vars == <<witnesses, witness_pubkeys, cfg, pc, edge_data, idx, results, df,
          output_csv, worst_edges, rep, itm_profile_result, reports, report_cards,
          log, calls, hotspots, batch_size, max_batches, offset, batch_count, gen,
          queries, batches, files>>

\* the state of the worker and of the report renderer
workerVars == <<witnesses, witness_pubkeys, cfg, pc, edge_data, idx, results, df,
                output_csv, worst_edges, rep, itm_profile_result, reports,
                report_cards, log, calls>>

\* the state of the inventory pager
pagerVars == <<hotspots, batch_size, max_batches, offset, batch_count, gen,
               queries, batches, files>>

-----------------------------------------------------------------------------
(* Bounds of the model *)

MaxLinks == 2

-----------------------------------------------------------------------------
(* Exact rational arithmetic (Python floats on the values used here) *)

Abs(x) == IF x < 0 THEN -x ELSE x

RECURSIVE GCD(_, _)
GCD(a, b) == IF b = 0 THEN a ELSE GCD(b, a % b)

Rat(n, d) ==
    LET g == GCD(Abs(n), d)
    IN  [n |-> n \div g, d |-> d \div g]

RInt(i) == [n |-> i, d |-> 1]
RNeg(a) == [n |-> -a.n, d |-> a.d]
RAdd(a, b) == Rat(a.n * b.d + b.n * a.d, a.d * b.d)
RSub(a, b) == RAdd(a, RNeg(b))
RMul(a, b) == Rat(a.n * b.n, a.d * b.d)
RLt(a, b) == a.n * b.d < b.n * a.d
RLe(a, b) == a.n * b.d <= b.n * a.d

-----------------------------------------------------------------------------
(* Tagged JSON values *)

NULL == [t |-> "null", v |-> 0]
Num(x) == [t |-> "num", v |-> x]
NaS == [t |-> "str", v |-> 0]
IsNum(j) == j.t = "num"

-----------------------------------------------------------------------------
(* Identifiers *)

Prefix == <<"h", "o", "t", "s", "p", "o", "t", "s", "/">>

\* f"hotspots/{pubkey}"
DocId(pubkey) == Prefix \o pubkey

CharsOf(s) == {s[i] : i \in 1..Len(s)}

\* str.strip(chars): drop every leading and trailing character that is in chars
Strip(s, chars) ==
    LET keep == {i \in 1..Len(s) : s[i] \notin CharsOf(chars)}
    IN  IF keep = {} THEN <<>>
        ELSE LET lo == CHOOSE i \in keep : \A j \in keep : i <= j
                 hi == CHOOSE i \in keep : \A j \in keep : j <= i
             IN  SubSeq(s, lo, hi)

-----------------------------------------------------------------------------
(* Link source: _fetch_edge_data *)

RECURSIVE SelectSeq2(_, _, _)
\* the subsequence of s whose elements satisfy Test, in order
SelectSeq2(s, Test(_), i) ==
    IF i > Len(s) THEN <<>>
    ELSE (IF Test(s[i]) THEN <<s[i]>> ELSE <<>>) \o SelectSeq2(s, Test, i + 1)

Take(s, n) == SubSeq(s, 1, IF Len(s) < n THEN Len(s) ELSE n)

\* the document indices 1..Len(db), as a sequence
Indices(db) == [i \in 1..Len(db) |-> i]

\* rows of one witness: FILTER wc._to == witness_doc_id [FILTER wc._from IN ...]
\* LIMIT @max_witnesses RETURN {beaconer, witness, asserted_pair}
MatchesOf(db, witness_doc_id, beaconer_doc_ids, limit) ==
    LET Hit(i) == /\ db[i]._to = witness_doc_id
                  /\ (beaconer_doc_ids # <<>> =>
                        \E b \in 1..Len(beaconer_doc_ids) :
                            db[i]._from = beaconer_doc_ids[b])
        hits == Take(SelectSeq2(Indices(db), Hit, 1), limit)
    IN  [n \in 1..Len(hits) |->
            [beaconer |-> db[hits[n]]._from,
             witness |-> db[hits[n]]._to,
             asserted_pair |-> db[hits[n]].asserted_pair,
             env |-> db[hits[n]].env,
             src |-> hits[n]]]

RECURSIVE FetchFrom(_, _, _, _, _)
FetchFrom(db, witness_doc_ids, beaconer_doc_ids, limit, w) ==
    IF w > Len(witness_doc_ids) THEN <<>>
    ELSE MatchesOf(db, witness_doc_ids[w], beaconer_doc_ids, limit)
            \o FetchFrom(db, witness_doc_ids, beaconer_doc_ids, limit, w + 1)

_fetch_edge_data(db, wkeys, bkeys, limit) ==
    LET witness_doc_ids == [i \in 1..Len(wkeys) |-> DocId(wkeys[i])]
        beaconer_doc_ids == [i \in 1..Len(bkeys) |-> DocId(bkeys[i])]
    IN  FetchFrom(db, witness_doc_ids, beaconer_doc_ids, limit, 1)

-----------------------------------------------------------------------------
(* Per-link evaluation: the body of the loop of compute_residuals *)

\* a floor of 0 instead of 1
ClampHeightFloorZero(h) ==
    LET lo == IF h > 0 THEN h ELSE 0
    IN  IF lo < 50 THEN lo ELSE 50

\* min(max(h, 1.0), 50.0)
ClampHeight(h) ==
    LET lo == IF h > 1 THEN h ELSE 1
    IN  IF lo < 50 THEN lo ELSE 50

\* max(neighborhood, key=tiles.elevation): the first cell of greatest elevation
HighestCell(ring) ==
    CHOOSE i \in 1..Len(ring) :
        /\ \A j \in 1..Len(ring) : ring[j].elev <= ring[i].elev
        /\ \A j \in 1..(i - 1) : ring[j].elev < ring[i].elev

\* Point(lat, lon, alt) of the chosen cell centre
RefinedPoint(ring, height) ==
    LET c == HighestCell(ring)
    IN  [cell |-> c, lat |-> ring[c].lat, lon |-> ring[c].lon, alt |-> height]

HeightValid(alt) == ~(alt < 0 \/ alt > 50)

PointError(loc) ==
    IF ~(-90 <= loc.lat /\ loc.lat <= 90) THEN "Invalid latitude"
    ELSE IF ~(-180 <= loc.lon /\ loc.lon <= 180) THEN "Invalid longitude"
    ELSE IF ~HeightValid(loc.alt) THEN "Invalid asserted height"
    ELSE "ok"

\* the two bounds taken as admissible
FrequencyValidClosed(freq_hz) == ~(freq_hz > 1000000000 \/ freq_hz < 400000000)

FrequencyValid(freq_hz) == ~(freq_hz >= 1000000000 \/ freq_hz <= 400000000)

HistogramValid(signal_hist) == ~(Len(signal_hist) = 0)

\* "ok", or the message of the ValueError raised
_validate_model_parameters(tx_loc, rx_loc, profile, freq_hz, signal_hist) ==
    IF PointError(tx_loc) # "ok" THEN PointError(tx_loc)
    ELSE IF PointError(rx_loc) # "ok" THEN PointError(rx_loc)
    ELSE IF profile.t = "null" THEN "Terrain profile generation failed"
    ELSE IF Len(profile.distances) < 2 THEN "Terrain profile is too short"
    ELSE IF ~FrequencyValid(freq_hz) THEN "Frequency out of expected range"
    ELSE IF ~HistogramValid(signal_hist) THEN "Invalid or empty signal histogram"
    ELSE "ok"

\* {int(k): (v if isinstance(v, (int, float)) and v is not None else 0) ...}
ParseHist(h) ==
    [i \in 1..Len(h) |-> [k |-> h[i].k, v |-> IF IsNum(h[i].v) THEN h[i].v.v ELSE 0]]

RECURSIVE SumOver(_, _, _)
SumOver(s, F(_), i) == IF i > Len(s) THEN 0 ELSE F(s[i]) + SumOver(s, F, i + 1)

\* np.sum(counts)
TotalWeight(signal_hist) ==
    LET Count(e) == e.v IN SumOver(signal_hist, Count, 1)

\* the zero-weight check left out
ZeroWeightUnchecked(signal_hist) == FALSE

\* if np.sum(counts) == 0
ZeroWeight(signal_hist) == TotalWeight(signal_hist) = 0

\* np.average(bins, weights=counts), bins = k / 10.0
WeightedMean(signal_hist) ==
    LET Weighted(e) == e.k * e.v
    IN  Rat(SumOver(signal_hist, Weighted, 1), 10 * TotalWeight(signal_hist))

RECURSIVE RSumOver(_, _, _)
RSumOver(s, F(_), i) ==
    IF i > Len(s) THEN RInt(0) ELSE RAdd(F(s[i]), RSumOver(s, F, i + 1))

\* np.average((bins - rssi_mean) ** 2, weights=counts)
WeightedVariance(signal_hist, rssi_mean) ==
    LET Dev(e) == RSub(Rat(e.k, 10), rssi_mean)
        Term(e) == RMul(RInt(e.v), RMul(Dev(e), Dev(e)))
    IN  RMul(RSumOver(signal_hist, Term, 1), Rat(1, TotalWeight(signal_hist)))

Last(s) == s[Len(s)]

\* the gains taken as dB although they are stored in tenths of dB
MeasuredLossGainsUndivided(rssi_mean, pair) ==
    RNeg(RSub(RSub(RSub(rssi_mean, RInt(pair.beaconer_gain)),
                   RInt(pair.beaconer_tx_power)),
              RInt(pair.witness_gain)))

\* -1.0 * (rssi_mean - beaconer_gain / 10.0 - beaconer_tx_power - witness_gain / 10.0)
MeasuredLoss(rssi_mean, pair) ==
    RNeg(RSub(RSub(RSub(rssi_mean, Rat(pair.beaconer_gain, 10)),
                   RInt(pair.beaconer_tx_power)),
              Rat(pair.witness_gain, 10)))

\* float(measured_loss - itm_loss)
Residual(measured_loss, itm_loss) == RSub(measured_loss, RInt(itm_loss))

\* a non-strict residual comparison
IsEdgeNonStrict(weight, residual, distance_km, c) ==
    /\ weight >= c.min_samples
    /\ RLe(residual, c.threshold_db)
    /\ RLt(c.min_distance_km, distance_km)

\* sum(counts) >= min_samples and residual < threshold_db
\*   and profile.distances()[-1]/1e3 > min_distance_km
IsEdge(weight, residual, distance_km, c) ==
    /\ weight >= c.min_samples
    /\ RLt(residual, c.threshold_db)
    /\ RLt(c.min_distance_km, distance_km)

\* one log line; src names the evaluated document (bookkeeping, never read)
LogLine(pass, src, level, msg) ==
    [pass |-> pass, src |-> src, level |-> level, msg |-> msg, val |-> RInt(0)]

\* "Model residual for pair ...: {residual} dB"
ResidualLine(pass, src, residual) ==
    [pass |-> pass, src |-> src, level |-> "info", msg |-> "Model residual",
     val |-> residual]

\* one invocation of an external numeric routine; w is the total weight handed
\* to np.average (0 for the propagation model)
Call(fn, pass, src, w) == [fn |-> fn, pass |-> pass, src |-> src, w |-> w]

Outcome(status, rec, logs, cls) ==
    [status |-> status, rec |-> rec, logs |-> logs, calls |-> cls]

\* itm_model.path(profile, freq_hz) when compute_loss_profile, else
\* itm_model.p2p(profile, freq_hz); the oracle's answer for this link
LossRoutine(compute_loss_profile) ==
    IF compute_loss_profile THEN "path" ELSE "p2p"

\* lines 274-288: [t |-> "err"] on ValueError, else itm_loss and itm_loss_profile
ModelLoss(env, compute_loss_profile) ==
    IF LossRoutine(compute_loss_profile) = "path"
    THEN IF env.path.t = "err"
         THEN [t |-> "err", itm_loss |-> 0, itm_loss_profile |-> NULL]
         ELSE [t |-> "ok", itm_loss |-> Last(env.path.v),
               itm_loss_profile |-> [t |-> "seq", v |-> env.path.v]]
    ELSE IF env.p2p.t = "err"
         THEN [t |-> "err", itm_loss |-> 0, itm_loss_profile |-> NULL]
         ELSE [t |-> "ok", itm_loss |-> env.p2p.v, itm_loss_profile |-> NULL]

\* the append dedented out of the `if`
RetainedAlways(record) == <<record>>

\* results.append({...}) stands inside `if (... ):`, after edge_flag = True
Retained(record) == IF record.edge_flag THEN <<record>> ELSE <<>>

\* lines 290-331, for a link that passed validation and has a model loss
Decide(row, c, pass, tx_loc, rx_loc, signal_hist, rssi_mean, rssi_variance, loss, cls) ==
    LET pair == row.asserted_pair
        profile == row.env.profile
        measured_loss == MeasuredLoss(rssi_mean, pair)
        residual == Residual(measured_loss, loss.itm_loss)
        distance_km == Rat(Last(profile.distances), 1000)
        edge_flag == IsEdge(TotalWeight(signal_hist), residual, distance_km, c)
        record ==
            [beaconer_pubkey |-> Strip(row.beaconer, Prefix),
             witness_pubkey |-> Strip(row.witness, Prefix),
             transmit_power_dBm |-> pair.beaconer_tx_power,
             frequency_hz |-> pair.beaconer_freq,
             measured_rssi |-> rssi_mean,
             measured_loss |-> measured_loss,
             samples |-> TotalWeight(signal_hist),
             variance |-> rssi_variance,
             itm_loss |-> loss.itm_loss,
             itm_loss_profile |-> loss.itm_loss_profile,
             residual |-> residual,
             distance_km |-> distance_km,
             terrain_profile_distances |-> profile.distances,
             terrain_profile_elevations |-> profile.elevation,
             tx_antenna_height_m |-> tx_loc.alt,
             rx_antenna_height_m |-> rx_loc.alt,
             tx_antenna_gain_dB |-> Rat(pair.beaconer_gain, 10),
             rx_antenna_gain_dB |-> Rat(pair.witness_gain, 10),
             edge_flag |-> edge_flag,
             src |-> row.src]
    IN  Outcome("evaluated", Retained(record),
                (IF edge_flag
                 THEN <<LogLine(pass, row.src, "info", "edge flagged")>> ELSE <<>>)
                \o <<ResidualLine(pass, row.src, residual)>>,
                cls)

\* lines 242-288, for a link whose two endpoints were refined
Measure(row, c, compute_loss_profile, pass, tx_loc, rx_loc) ==
    LET pair == row.asserted_pair
        env == row.env
        signal_hist == ParseHist(pair.signal_hist.v)
        invalid == _validate_model_parameters(tx_loc, rx_loc, env.profile,
                                              pair.beaconer_freq, signal_hist)
        rssi_mean == WeightedMean(signal_hist)
        rssi_variance == WeightedVariance(signal_hist, rssi_mean)
        averaged == <<Call("average", pass, row.src, TotalWeight(signal_hist)),
                      Call("average", pass, row.src, TotalWeight(signal_hist))>>
        loss == ModelLoss(env, compute_loss_profile)
        cls == averaged \o
               <<Call(LossRoutine(compute_loss_profile), pass, row.src, 0)>>
    IN  IF invalid # "ok"
        THEN Outcome("skipped", <<>>, <<LogLine(pass, row.src, "info", invalid)>>, <<>>)
        ELSE IF ZeroWeight(signal_hist)
        THEN Outcome("skipped", <<>>,
                     <<LogLine(pass, row.src, "warning",
                               "All signal histogram weights are zero")>>, <<>>)
        \* np.average: ZeroDivisionError, "Weights sum to zero"
        ELSE IF TotalWeight(signal_hist) = 0
        THEN Outcome("raised", <<>>, <<>>,
                     <<Call("average", pass, row.src, TotalWeight(signal_hist))>>)
        ELSE IF loss.t = "err"
        THEN Outcome("skipped", <<>>,
                     <<LogLine(pass, row.src, "warning", "Error computing ITM loss")>>,
                     cls)
        ELSE Decide(row, c, pass, tx_loc, rx_loc, signal_hist,
                    rssi_mean, rssi_variance, loss, cls)

\* One iteration of `for row in edge_data.rows(named=True)`.  status is
\* "skipped" (continue), "evaluated" (the decision step was reached) or
\* "raised" (an exception left compute_residuals).
EvalRow(row, c, compute_loss_profile, pass) ==
    LET pair == row.asserted_pair
        env == row.env
    IN  IF pair.t = "null"
        THEN Outcome("skipped", <<>>,
                     <<LogLine(pass, row.src, "info", "No asserted coordinates")>>, <<>>)
        \* min(max(None, 1.0), 50.0): TypeError
        ELSE IF ~IsNum(pair.beaconer_elevation) \/ ~IsNum(pair.witness_elevation)
        THEN Outcome("raised", <<>>, <<>>, <<>>)
        \* reversed(None): TypeError
        ELSE IF ~IsNum(pair.beaconer_geo_loc) \/ ~IsNum(pair.witness_geo_loc)
        THEN Outcome("raised", <<>>, <<>>, <<>>)
        \* max([]): ValueError, outside every try block
        ELSE IF Len(env.beaconer_ring) = 0 \/ Len(env.witness_ring) = 0
        THEN Outcome("raised", <<>>, <<>>, <<>>)
        \* None.items(): AttributeError
        ELSE IF pair.signal_hist.t # "dict"
        THEN Outcome("raised", <<>>, <<>>, <<>>)
        ELSE Measure(row, c, compute_loss_profile, pass,
                     RefinedPoint(env.beaconer_ring,
                                  ClampHeight(pair.beaconer_elevation.v)),
                     RefinedPoint(env.witness_ring,
                                  ClampHeight(pair.witness_elevation.v)))

\* compute_residuals on already fetched rows, from row i on: the rows' outcomes
\* accumulated until the loop ends or an exception leaves it
RECURSIVE RunRows(_, _, _, _, _)
RunRows(rows, c, compute_loss_profile, pass, i) ==
    IF i > Len(rows) THEN Outcome("returned", <<>>, <<>>, <<>>)
    ELSE LET o == EvalRow(rows[i], c, compute_loss_profile, pass)
         IN  IF o.status = "raised" THEN o
             ELSE LET rest == RunRows(rows, c, compute_loss_profile, pass, i + 1)
                  IN  Outcome(rest.status, o.rec \o rest.rec,
                              o.logs \o rest.logs, o.calls \o rest.calls)

-----------------------------------------------------------------------------
(* BatchSelector: worst_edges of worker *)

Perms(n) == {p \in [1..n -> 1..n] : \A i, j \in 1..n : p[i] = p[j] => i = j}

\* df.filter(pl.col("edge_flag") == True)
EdgeRows(frame) == SelectSeq(frame, LAMBDA r : r.edge_flag)

\* a descending sort
InSortOrderDescending(rows, p) ==
    \A i, j \in 1..Len(rows) : i < j => RLe(rows[p[j]].residual, rows[p[i]].residual)

\* .sort("residual"): ascending; the order among equal residuals is not fixed
InSortOrder(rows, p) ==
    \A i, j \in 1..Len(rows) : i < j => RLe(rows[p[i]].residual, rows[p[j]].residual)

\* .group_by("witness_pubkey").first(): of each group the first row in order p
GroupFirsts(rows, p) ==
    {p[i] : i \in {i \in 1..Len(rows) :
        \A j \in 1..(i - 1) : rows[p[j]].witness_pubkey # rows[p[i]].witness_pubkey}}

\* every frame the expression can produce: groups come in no fixed order
WorstEdges(frame) ==
    LET rows == EdgeRows(frame)
    IN  UNION {
          LET firsts == GroupFirsts(rows, p)
          IN  {[i \in 1..Cardinality(firsts) |-> rows[q[i]]] :
                  q \in {q \in [1..Cardinality(firsts) -> firsts] :
                            \A i, j \in 1..Cardinality(firsts) : q[i] = q[j] => i = j}}
          : p \in {p \in Perms(Len(rows)) : InSortOrder(rows, p)}}

\* df.filter(edge_flag).select(["beaconer_pubkey", "witness_pubkey"]).write_csv
EdgePairs(frame) ==
    LET rows == EdgeRows(frame)
    IN  [i \in 1..Len(rows) |->
            [beaconer_pubkey |-> rows[i].beaconer_pubkey,
             witness_pubkey |-> rows[i].witness_pubkey]]

\* the keyword arguments of generate_pdf_report, from row 0 of the result
ReportArgs(file, r) ==
    [file |-> file,
     beaconer_pubkey |-> r.beaconer_pubkey,
     witness_pubkey |-> r.witness_pubkey,
     terrain_profile_elevations |-> r.terrain_profile_elevations,
     terrain_profile_distances |-> r.terrain_profile_distances,
     tx_antenna_height_m |-> r.tx_antenna_height_m,
     rx_antenna_height_m |-> r.rx_antenna_height_m,
     frequency_hz |-> r.frequency_hz,
     itm_loss_profile |-> r.itm_loss_profile,
     tx_power_dBm |-> r.transmit_power_dBm,
     tx_gain_dB |-> r.tx_antenna_gain_dB,
     rx_gain_dB |-> r.rx_antenna_gain_dB,
     measured_rssi |-> r.measured_rssi,
     variance |-> r.variance,
     samples |-> r.samples,
     src |-> r.src]

-----------------------------------------------------------------------------
(* report_card.generate_pdf_report *)

\* c = 2.998e8, in m/s
c == 299800000

\* np.linspace(start, stop, n): n evenly spaced values, both ends included
Linspace(start, stop, n) ==
    [i \in 1..n |->
        IF n = 1 THEN RInt(start)
        ELSE RAdd(RInt(start), Rat((i - 1) * (stop - start), n - 1))]

\* the second distance taken as the whole path
d2Whole(D, d1) == D

\* d2 = D - d1
d2(D, d1) == D - d1

\* (wavelength * d1 * d2) / D at one sample, as an exact rational (the factors
\* are multiplied smallest first to keep the integers short).  fresnel_radius
\* is the square root of this value: it is 0 exactly where this value is 0.
FresnelRadicand(wavelength, d1, D) ==
    RMul(wavelength, RMul(Rat(d1, D), RInt(d2(D, d1))))

\* line + fresnel_radius (sign 1) and line - fresnel_radius (sign -1): the
\* number base + sign * sqrt(radicand)
Offset(base, sign, radicand) ==
    [base |-> base, sign |-> sign, radicand |-> radicand]

\* the points of the plane where an Offset lies on its base
OnLine(o) == o.radicand = RInt(0)

\* round(x, ndigits): the nearest multiple of 10^-ndigits, a tie going to the
\* even one; scale is 10^ndigits
Round(x, scale) ==
    LET n == x.n * scale
        q == n \div x.d
        r == n % x.d
    IN  IF 2 * r < x.d THEN Rat(q, scale)
        ELSE IF 2 * r > x.d THEN Rat(q + 1, scale)
        ELSE IF q % 2 = 0 THEN Rat(q, scale) ELSE Rat(q + 1, scale)

\* the estimate without the receiver gain
EstimatedRssiNoRxGain(a) ==
    RSub(RAdd(RInt(a.tx_power_dBm), a.tx_gain_dB), RInt(Last(a.itm_loss_profile.v)))

\* erssi = tx_power_dBm + tx_gain_dB + rx_gain_dB - itm_loss_profile[-1]
EstimatedRssi(a) ==
    RSub(RAdd(RAdd(RInt(a.tx_power_dBm), a.tx_gain_dB), a.rx_gain_dB),
         RInt(Last(a.itm_loss_profile.v)))

\* what generate_pdf_report computes from its arguments: the geometry of the
\* terrain plot and the cells of the metadata table
generate_pdf_report(a) ==
    LET distances == a.terrain_profile_distances
        elevations == a.terrain_profile_elevations
        n == Len(distances)
        line == Linspace(elevations[1] + a.tx_antenna_height_m,
                         Last(elevations) + a.rx_antenna_height_m, n)
        wavelength == Rat(c, a.frequency_hz)
        D == Last(distances)
        fresnel == [i \in 1..n |-> FresnelRadicand(wavelength, distances[i], D)]
        erssi == EstimatedRssi(a)
    IN  [file |-> a.file,
         beaconer_pubkey |-> a.beaconer_pubkey,
         witness_pubkey |-> a.witness_pubkey,
         line |-> line,
         fresnel_radius_sq |-> fresnel,
         upper |-> [i \in 1..n |-> Offset(line[i], 1, fresnel[i])],
         lower |-> [i \in 1..n |-> Offset(line[i], -1, fresnel[i])],
         erssi |-> erssi,
         residual |-> RSub(erssi, a.measured_rssi),
         table |-> [measured_rssi |-> Round(a.measured_rssi, 10),
                    itm_loss |-> Round(RInt(Last(a.itm_loss_profile.v)), 100),
                    erssi |-> Round(erssi, 10),
                    residual |-> Round(RSub(erssi, a.measured_rssi), 100)],
         src |-> a.src]

-----------------------------------------------------------------------------
(* Configuration *)

max_beaconers == 250

\* the defaults of classifier_worker: THRESHOLD_DB, MIN_SAMPLES, MIN_DISTANCE_KM
WorkerDefaults ==
    [threshold_db |-> RInt(-30), min_samples |-> 10, min_distance_km |-> RInt(1)]

\* a .env that sets THRESHOLD_DB=-15
Threshold15 == [WorkerDefaults EXCEPT !.threshold_db = RInt(-15)]

-----------------------------------------------------------------------------
(* Input domains *)

Cell(lat, lon, elev) == [lat |-> lat, lon |-> lon, elev |-> elev]

EmptyRing == <<>>
OneCellRing == <<Cell(45, 7, 310)>>
ThreeCellRing == <<Cell(45, 7, 310), Cell(46, 7, 420), Cell(46, 8, 420)>>

Profile(distances) ==
    [t |-> "profile", distances |-> distances,
     elevation |-> [i \in 1..Len(distances) |-> 300 + 10 * i]]
NoProfile == [t |-> "null", distances |-> <<>>, elevation |-> <<>>]

P2P(loss) == [t |-> "num", v |-> loss]
P2PError == [t |-> "err", v |-> 0]
Path(losses) == [t |-> "seq", v |-> losses]
PathError == [t |-> "err", v |-> <<>>]

Bin(k, v) == [k |-> k, v |-> v]
Hist(entries) == [t |-> "dict", v |-> entries]

Hist20 == Hist(<<Bin(-850, Num(10)), Bin(-800, Num(10))>>)

NominalPair ==
    [t |-> "pair",
     beaconer_elevation |-> Num(25), witness_elevation |-> Num(25),
     beaconer_geo_loc |-> Num(0), witness_geo_loc |-> Num(0),
     beaconer_freq |-> 915000000,
     signal_hist |-> Hist20,
     beaconer_gain |-> 20, witness_gain |-> 15, beaconer_tx_power |-> 27]

NoPair == [NominalPair EXCEPT !.t = "null"]

\* what the grid, the tiles and the model answer for a link
Env(p2p, path) ==
    [beaconer_ring |-> ThreeCellRing, witness_ring |-> OneCellRing,
     profile |-> Profile(<<0, 2500, 5000>>),
     p2p |-> p2p, path |-> path]

Link(pair, env) == [asserted_pair |-> pair, env |-> env]

\* the cumulative form ends at the scalar form's value
Agreeing(loss) == Env(P2P(loss), Path(<<100, loss>>))

\* links of the batch model: one of each way an evaluation can end
LeanLinks ==
    {Link(NoPair, Agreeing(144)),
     Link(NominalPair, Agreeing(144)),
     Link(NominalPair, Agreeing(150)),
     Link(NominalPair, Agreeing(130)),
     Link(NominalPair, Env(P2P(144), Path(<<100, 140>>))),
     Link(NominalPair, Env(P2P(144), PathError)),
     Link(NominalPair, Env(P2PError, PathError)),
     Link([NominalPair EXCEPT !.beaconer_elevation = NULL], Agreeing(144)),
     Link([NominalPair EXCEPT !.beaconer_freq = 1000000000], Agreeing(144)),
     Link(NominalPair, [Agreeing(144) EXCEPT !.witness_ring = EmptyRing])}

Heights == {NULL, Num(-3), Num(0), Num(25), Num(50), Num(75)}
Rings == {EmptyRing, OneCellRing, ThreeCellRing}
Frequencies == {399000000, 400000000, 401000000, 915000000, 999000000, 1000000000}
Profiles == {NoProfile, Profile(<<0>>), Profile(<<0, 500>>), Profile(<<0, 1000>>),
             Profile(<<0, 2500, 5000>>)}
Histograms ==
    {NULL,
     Hist(<<>>),
     Hist(<<Bin(-850, Num(0))>>),
     Hist(<<Bin(-850, NaS), Bin(-800, NULL)>>),
     Hist(<<Bin(-850, Num(5))>>),
     Hist(<<Bin(-850, Num(9)), Bin(-800, NaS)>>),
     Hist(<<Bin(-850, Num(5)), Bin(-800, Num(5))>>),
     Hist(<<Bin(-850, Num(10)), Bin(-800, Num(20))>>),
     Hist20}
Gains == {<<20, 15>>, <<0, 12>>}
Losses == {128, 133, 143, 144}

\* links of the single-link model: the measurement inputs in every combination,
\* then the geometry inputs in every combination, then disagreeing model forms
RichLinks ==
    {Link([NominalPair EXCEPT !.beaconer_freq = f, !.signal_hist = h,
                              !.beaconer_gain = g[1], !.witness_gain = g[2]],
          [e EXCEPT !.profile = pr]) :
        f \in Frequencies, h \in Histograms, g \in Gains, pr \in Profiles,
        e \in {Agreeing(l) : l \in Losses} \cup {Env(P2PError, PathError)}}
    \cup
    {Link([NominalPair EXCEPT !.beaconer_elevation = bh, !.witness_elevation = wh],
          [Agreeing(144) EXCEPT !.beaconer_ring = br, !.witness_ring = wr]) :
        bh \in Heights, wh \in Heights, br \in Rings, wr \in Rings}
    \cup
    {Link([NominalPair EXCEPT !.beaconer_geo_loc = NULL], Agreeing(144)),
     Link([NominalPair EXCEPT !.witness_geo_loc = NULL], Agreeing(144)),
     Link(NoPair, Agreeing(144)),
     Link(NominalPair, Env(P2P(144), Path(<<100, 140>>))),
     Link(NominalPair, Env(P2P(144), Path(<<100, 150>>))),
     Link(NominalPair, Env(P2P(144), PathError))}

WitnessKeys == {<<"a">>, <<"a", "s">>}
BeaconerKeys == {<<"b">>, <<"b", "s">>}

Doc(from, to, link) ==
    [_from |-> DocId(from), _to |-> DocId(to),
     asserted_pair |-> link.asserted_pair, env |-> link.env]

\* sequences of 0..n elements of S
SeqsUpTo(S, n) == UNION {[1..k -> S] : k \in 0..n}

\* edge collections: one document per beaconer -> witness pair
Collections(links, n) ==
    {db \in SeqsUpTo({Doc(b, w, l) : b \in BeaconerKeys, w \in WitnessKeys, l \in links}, n) :
        \A i, j \in 1..Len(db) :
            (db[i]._from = db[j]._from /\ db[i]._to = db[j]._to) => i = j}

-----------------------------------------------------------------------------
(* fetch_hotspot_inventory: the pager and its consumer *)

MaxKeys == 4
MaxBatchSize == 3
MaxBatches == 3

\* hotspot keys, numbered in ascending key order
Keys == 1..MaxKeys

\* SORT hs._key: the keys of the collection in ascending order
RECURSIVE SortedKeys(_)
SortedKeys(S) ==
    IF S = {} THEN <<>>
    ELSE LET least == CHOOSE k \in S : \A j \in S : k <= j
         IN  <<least>> \o SortedKeys(S \ {least})

\* FOR hs IN hotspots SORT hs._key LIMIT @offset, @count RETURN hs._key
Query(collection, bind_offset, bind_count) ==
    LET sorted == SortedKeys(collection)
        last == IF bind_offset + bind_count < Len(sorted)
                THEN bind_offset + bind_count ELSE Len(sorted)
    IN  SubSeq(sorted, bind_offset + 1, last)

\* the offset advanced by one key
NextOffsetByOne(o, size) == o + 1

\* offset += batch_size
NextOffset(o, size) == o + size

\* no inventory run
PagerIdle ==
    /\ hotspots = {}
    /\ batch_size = 1
    /\ max_batches = NULL
    /\ offset = 0
    /\ batch_count = 0
    /\ gen = "idle"
    /\ queries = <<>>
    /\ batches = <<>>
    /\ files = <<>>

\* save_hotspot_inventory starts the generator over a collection of up to
\* MaxKeys keys
InitPager ==
    /\ witnesses = <<>>
    /\ witness_pubkeys = <<>>
    /\ cfg = WorkerDefaults
    /\ pc = "inventory"
    /\ edge_data = <<>>
    /\ idx = 1
    /\ results = <<>>
    /\ df = <<>>
    /\ output_csv = <<>>
    /\ worst_edges = <<>>
    /\ rep = 1
    /\ itm_profile_result = <<>>
    /\ reports = <<>>
    /\ report_cards = <<>>
    /\ log = <<>>
    /\ calls = <<>>
    /\ hotspots \in SUBSET Keys
    /\ batch_size \in 1..MaxBatchSize
    /\ max_batches \in {NULL} \cup {Num(k) : k \in 0..MaxBatches}
    /\ offset = 0
    /\ batch_count = 0
    /\ gen = "loop"
    /\ queries = <<>>
    /\ batches = <<>>
    /\ files = <<>>

\* one pass of `while True` up to the yield or a break
YieldBatch ==
    /\ gen = "loop"
    /\ IF max_batches # NULL /\ batch_count >= max_batches.v
       THEN /\ gen' = "returned"
            /\ UNCHANGED <<queries, batches>>
       ELSE LET results_ == Query(hotspots, offset, batch_size)
            IN  /\ queries' = Append(queries, [offset |-> offset, count |-> batch_size,
                                               results |-> results_])
                /\ IF results_ = <<>>
                   THEN gen' = "returned" /\ UNCHANGED batches
                   ELSE gen' = "yielded" /\ batches' = Append(batches, results_)
    /\ UNCHANGED <<hotspots, batch_size, max_batches, offset, batch_count, files>>
    /\ UNCHANGED workerVars

\* the body of the consumer's for loop writes batch_{batch_idx:03d}.csv, then
\* the generator resumes after the yield
WriteBatch ==
    /\ gen = "yielded"
    /\ files' = Append(files, [batch_idx |-> Len(files), rows |-> batches[Len(batches)]])
    /\ offset' = NextOffset(offset, batch_size)
    /\ batch_count' = batch_count + 1
    /\ gen' = "loop"
    /\ UNCHANGED <<hotspots, batch_size, max_batches, queries, batches>>
    /\ UNCHANGED workerVars

NextPager == YieldBatch \/ WriteBatch

\* the consumer's for loop runs the generator until it returns
SpecPager == InitPager /\ [][NextPager]_vars /\ WF_vars(NextPager)

-----------------------------------------------------------------------------
(* The worker *)

InitRun ==
    /\ PagerIdle
    /\ pc = "start"
    /\ edge_data = <<>>
    /\ idx = 1
    /\ results = <<>>
    /\ df = <<>>
    /\ output_csv = <<>>
    /\ worst_edges = <<>>
    /\ rep = 1
    /\ itm_profile_result = <<>>
    /\ reports = <<>>
    /\ report_cards = <<>>
    /\ log = <<>>
    /\ calls = <<>>

\* input lists as save_hotspot_inventory writes them: distinct keys in
\* ascending key order (SORT hs._key), here shorter key first
InputLists ==
    {k \in SeqsUpTo(WitnessKeys, Cardinality(WitnessKeys)) :
        Len(k) > 0 /\ \A i, j \in 1..Len(k) : i < j => Len(k[i]) < Len(k[j])}

\* a batch of up to MaxLinks links under the worker's default thresholds
Init ==
    /\ witnesses \in Collections(LeanLinks, MaxLinks)
    /\ witness_pubkeys \in InputLists
    /\ cfg = WorkerDefaults
    /\ InitRun

\* one link, every input combination, two threshold settings
InitLink ==
    /\ witnesses \in {<<Doc(<<"b">>, <<"a">>, l)>> : l \in RichLinks}
    /\ witness_pubkeys = <<<<"a">>>>
    /\ cfg \in {WorkerDefaults, Threshold15}
    /\ InitRun

\* df = itm_classifier.compute_residuals(...): the query
FetchBatch ==
    /\ pc = "start"
    /\ edge_data' = _fetch_edge_data(witnesses, witness_pubkeys, <<>>, max_beaconers)
    /\ idx' = 1
    /\ results' = <<>>
    /\ pc' = "batch"
    /\ log' = Append(log, LogLine("batch", 0, "info", "Running ITM classifier"))
    /\ UNCHANGED <<pagerVars, report_cards, witnesses, witness_pubkeys, cfg, df, output_csv, worst_edges,
                   rep, itm_profile_result, reports, calls>>

\* compute_loss_profile of the batch call (not passed: the default)
BatchLossProfile == FALSE

\* one iteration of the loop of the batch compute_residuals; an exception
\* leaving it is caught by worker, which logs and aborts
EvaluateRow ==
    /\ pc = "batch"
    /\ idx <= Len(edge_data)
    /\ LET o == EvalRow(edge_data[idx], cfg, BatchLossProfile, "batch")
       IN  /\ calls' = calls \o o.calls
           /\ IF o.status = "raised"
              THEN /\ pc' = "aborted"
                   /\ log' = Append(log, LogLine("batch", edge_data[idx].src, "error",
                                                 "Failed to compute residuals"))
                   /\ UNCHANGED <<results, idx>>
              ELSE /\ pc' = pc
                   /\ log' = log \o o.logs
                   /\ results' = results \o o.rec
                   /\ idx' = idx + 1
    /\ UNCHANGED <<pagerVars, report_cards, witnesses, witness_pubkeys, cfg, edge_data, df, output_csv,
                   worst_edges, rep, itm_profile_result, reports>>

\* the batch compute_residuals returns; worker writes the CSV and selects
ReturnBatch ==
    /\ pc = "batch"
    /\ idx > Len(edge_data)
    /\ df' = results
    /\ IF Len(results) = 0
       THEN /\ pc' = "done"
            /\ log' = Append(log, LogLine("batch", 0, "warning", "No valid links found"))
            /\ UNCHANGED <<output_csv, worst_edges, rep>>
       ELSE /\ pc' = "report"
            /\ output_csv' = EdgePairs(results)
            /\ worst_edges' \in WorstEdges(results)
            /\ rep' = 1
            /\ log' = Append(log, LogLine("batch", 0, "info", "Starting report card generation"))
    /\ UNCHANGED <<pagerVars, report_cards, witnesses, witness_pubkeys, cfg, edge_data, idx, results,
                   itm_profile_result, reports, calls>>

\* one iteration of `for row in worst_edges.iter_rows(named=True)`
ReportCard ==
    /\ pc = "report"
    /\ rep <= Len(worst_edges)
    /\ LET witness == Strip(worst_edges[rep].witness_pubkey, Prefix)
           beaconer == Strip(worst_edges[rep].beaconer_pubkey, Prefix)
           rows == _fetch_edge_data(witnesses, <<witness>>, <<beaconer>>, 1)
           o == RunRows(rows, cfg, TRUE, "report", 1)
       IN  /\ calls' = calls \o o.calls
           /\ IF o.status = "raised"
              THEN /\ pc' = "crashed"
                   /\ log' = log \o o.logs
                   /\ UNCHANGED <<rep, itm_profile_result, reports, report_cards>>
              ELSE IF Len(o.rec) = 0
              THEN /\ pc' = pc
                   /\ log' = (log \o o.logs) \o
                             <<LogLine("report", worst_edges[rep].src, "warning",
                                       "No ITM loss profile available")>>
                   /\ rep' = rep + 1
                   /\ itm_profile_result' = o.rec
                   /\ UNCHANGED <<reports, report_cards>>
              ELSE /\ pc' = pc
                   /\ log' = (log \o o.logs) \o
                             <<LogLine("report", worst_edges[rep].src, "info",
                                       "report card written")>>
                   /\ reports' = Append(reports, ReportArgs(witness, o.rec[1]))
                   /\ report_cards' = Append(report_cards,
                          generate_pdf_report(ReportArgs(witness, o.rec[1])))
                   /\ itm_profile_result' = o.rec
                   /\ rep' = rep + 1
    /\ UNCHANGED <<pagerVars, witnesses, witness_pubkeys, cfg, edge_data, idx, results, df,
                   output_csv, worst_edges>>

\* "Finished report card generation for batch."
Finish ==
    /\ pc = "report"
    /\ rep > Len(worst_edges)
    /\ pc' = "done"
    /\ log' = Append(log, LogLine("report", 0, "info", "Finished report card generation"))
    /\ UNCHANGED <<pagerVars, report_cards, witnesses, witness_pubkeys, cfg, edge_data, idx, results, df,
                   output_csv, worst_edges, rep, itm_profile_result, reports, calls>>

Next == FetchBatch \/ EvaluateRow \/ ReturnBatch \/ ReportCard \/ Finish

Spec == Init /\ [][Next]_vars

SpecLink == InitLink /\ [][Next]_vars

\* arguments of a stand-alone call of generate_pdf_report: terrain profiles of
\* two to four samples measured from the transmitter, frequencies inside and
\* below the band, antenna heights, loss profiles (one value per sample after
\* the first) and mean signal strengths
ReportDistances == {<<0, 1000>>, <<0, 500, 1000>>, <<0, 2500, 5000>>,
                    <<0, 1000, 3000, 4000>>}
ReportFrequencies == {100000000, 401000000, 915000000, 999000000}
ReportInputs ==
    {[file |-> <<"a">>,
      beaconer_pubkey |-> <<"b">>,
      witness_pubkey |-> <<"a">>,
      terrain_profile_elevations |-> Profile(d).elevation,
      terrain_profile_distances |-> d,
      tx_antenna_height_m |-> tx,
      rx_antenna_height_m |-> rx,
      frequency_hz |-> f,
      itm_loss_profile |-> Path([i \in 1..(Len(d) - 1) |-> l - 10 * (Len(d) - 1 - i)]),
      tx_power_dBm |-> 27,
      tx_gain_dB |-> Rat(20, 10),
      rx_gain_dB |-> Rat(15, 10),
      measured_rssi |-> m,
      variance |-> Rat(25, 4),
      samples |-> 20,
      src |-> 0] :
        d \in ReportDistances, f \in ReportFrequencies, tx \in {1, 50},
        rx \in {1, 25}, l \in {128, 144}, m \in {Rat(-825, 10), Rat(-245, 3)}}

\* one pending call of generate_pdf_report, outside a worker run
InitReport ==
    /\ PagerIdle
    /\ witnesses = <<>>
    /\ witness_pubkeys = <<>>
    /\ cfg = WorkerDefaults
    /\ pc = "render"
    /\ edge_data = <<>>
    /\ idx = 1
    /\ results = <<>>
    /\ df = <<>>
    /\ output_csv = <<>>
    /\ worst_edges = <<>>
    /\ rep = 1
    /\ itm_profile_result = <<>>
    /\ reports \in {<<a>> : a \in ReportInputs}
    /\ report_cards = <<>>
    /\ log = <<>>
    /\ calls = <<>>

\* generate_pdf_report(**kwargs) for the pending call
RenderReport ==
    /\ pc = "render"
    /\ Len(report_cards) < Len(reports)
    /\ report_cards' = Append(report_cards,
                              generate_pdf_report(reports[Len(report_cards) + 1]))
    /\ UNCHANGED <<pagerVars, witnesses, witness_pubkeys, cfg, pc, edge_data, idx, results, df,
                   output_csv, worst_edges, rep, itm_profile_result, reports, log,
                   calls>>

NextReport == RenderReport

SpecReport == InitReport /\ [][NextReport]_vars

-----------------------------------------------------------------------------
(* Vocabulary of the properties *)

\* the link document a row, record or log line was computed from
DocOf(src) == witnesses[src]

\* rows of the batch whose iteration has ended without an exception
EvaluatedRows == {r \in 1..Len(edge_data) : r < idx}

BatchLines(src, msg) ==
    {n \in 1..Len(log) : log[n].pass = "batch" /\ log[n].src = src /\ log[n].msg = msg}

RecordsOf(frame, src) == {i \in 1..Len(frame) : frame[i].src = src}

\* total histogram weight as the data model defines it: the sum of the numeric
\* counts, every other count being 0
RECURSIVE CountSum(_)
CountSum(entries) ==
    IF entries = <<>> THEN 0
    ELSE (IF Head(entries).v.t = "num" THEN Head(entries).v.v ELSE 0)
            + CountSum(Tail(entries))

DistanceKmOf(doc) == Rat(doc.env.profile.distances[Len(doc.env.profile.distances)], 1000)

-----------------------------------------------------------------------------
(* Properties *)

\* C1: a link that reached the decision step is retained as an edge if and
\* only if its total histogram weight (sum of counts) is >= min_samples, its
\* residual is strictly below threshold_db and its distance is strictly above
\* min_distance_km.
C1_EdgeIffAllThree ==
    \A n \in 1..Len(log) :
        (log[n].pass = "batch" /\ log[n].msg = "Model residual") =>
            LET doc == DocOf(log[n].src)
                flagged == \E i \in RecordsOf(results, log[n].src) : results[i].edge_flag
            IN  flagged <=>
                    /\ CountSum(doc.asserted_pair.signal_hist.v) >= cfg.min_samples
                    /\ log[n].val.n * cfg.threshold_db.d < cfg.threshold_db.n * log[n].val.d
                    /\ cfg.min_distance_km.n * DistanceKmOf(doc).d
                          < DistanceKmOf(doc).n * cfg.min_distance_km.d

\* C1: the example of the claim, flagged: weight 20, residual -20 against a
\* threshold of -15, 5 km against a minimum of 1 km.
C1_Witness ==
    /\ cfg.threshold_db = [n |-> -15, d |-> 1]
    /\ cfg.min_samples = 10
    /\ cfg.min_distance_km = [n |-> 1, d |-> 1]
    /\ \E n \in 1..Len(log) :
        /\ log[n].pass = "batch" /\ log[n].msg = "Model residual"
        /\ log[n].val = [n |-> -20, d |-> 1]
        /\ CountSum(DocOf(log[n].src).asserted_pair.signal_hist.v) = 20
        /\ DistanceKmOf(DocOf(log[n].src)) = [n |-> 5, d |-> 1]
        /\ \E i \in RecordsOf(results, log[n].src) : results[i].edge_flag

\* C2: every record of a frame compute_residuals builds or returns has
\* edge_flag = true; an evaluated row has a record exactly when it was flagged
\* as an edge, and never more than one; a row not yet evaluated has none.
C2_OnlyEdgesRetained ==
    /\ \A i \in 1..Len(results) : results[i].edge_flag
    /\ \A i \in 1..Len(df) : df[i].edge_flag
    /\ \A i \in 1..Len(itm_profile_result) : itm_profile_result[i].edge_flag
    /\ \A r \in 1..Len(edge_data) :
        LET src == edge_data[r].src
        IN  /\ Cardinality(RecordsOf(results, src)) <= 1
            /\ r \in EvaluatedRows =>
                 (RecordsOf(results, src) # {} <=> BatchLines(src, "edge flagged") # {})
            /\ r \notin EvaluatedRows => RecordsOf(results, src) = {}
    /\ pc \in {"report", "done"} => df = results

\* C2: a batch has returned a frame that holds one link and left out another
\* that reached the decision step.
C2_Witness ==
    /\ pc = "report"
    /\ Len(df) = 1
    /\ \E r \in EvaluatedRows :
        /\ BatchLines(edge_data[r].src, "Model residual") # {}
        /\ RecordsOf(df, edge_data[r].src) = {}

\* the row's iteration has begun and is over: it ended normally, or it is the
\* row at which the batch was aborted
Attempted(r) == r \in EvaluatedRows \/ (r = idx /\ pc = "aborted")

\* the refinement of a row's endpoints is reached and finds an empty ring
EmptyRingRow(r) ==
    LET doc == DocOf(edge_data[r].src)
    IN  /\ doc.asserted_pair.t = "pair"
        /\ doc.asserted_pair.beaconer_elevation.t = "num"
        /\ doc.asserted_pair.witness_elevation.t = "num"
        /\ doc.asserted_pair.beaconer_geo_loc.t = "num"
        /\ doc.asserted_pair.witness_geo_loc.t = "num"
        /\ (doc.env.beaconer_ring = <<>> \/ doc.env.witness_ring = <<>>)

\* C3: a failure while evaluating one link never aborts the batch: once the
\* batch pass is over, it was not aborted and every fetched link was evaluated.
C3_FailureIsolation ==
    pc \notin {"start", "batch"} =>
        /\ pc # "aborted"
        /\ EvaluatedRows = 1..Len(edge_data)

\* C4: a link whose ring of candidate cells is empty is skipped: its iteration
\* ends normally with exactly one log line and no record, and the batch is
\* not aborted at it.
C4_EmptyRingSkipped ==
    \A r \in 1..Len(edge_data) :
        (EmptyRingRow(r) /\ Attempted(r)) =>
            /\ r \in EvaluatedRows
            /\ Cardinality({n \in 1..Len(log) :
                    log[n].pass = "batch" /\ log[n].src = edge_data[r].src}) = 1
            /\ RecordsOf(results, edge_data[r].src) = {}

C6_ExpensiveOnlyForSelected ==
    /\ \A n \in 1..Len(calls) :
        /\ calls[n].pass = "batch" => calls[n].fn \in {"average", "p2p"}
        /\ calls[n].fn = "path" =>
             /\ pc \in {"report", "done", "crashed"}
             /\ \E k \in 1..Len(worst_edges) : worst_edges[k].src = calls[n].src
    /\ Cardinality({n \in 1..Len(calls) : calls[n].fn = "path"}) <= Len(worst_edges)
    /\ \A i \in 1..Len(itm_profile_result) :
        /\ itm_profile_result[i].itm_loss_profile.t = "seq"
        /\ itm_profile_result[i].itm_loss =
              itm_profile_result[i].itm_loss_profile.v[
                  Len(itm_profile_result[i].itm_loss_profile.v)]

\* The part of C6 that does not depend on which link the report query finds:
\* the batch pass invokes only np.average and itm.p2p, the report pass never
\* invokes itm.p2p, and itm.path runs at most once per row of worst_edges and
\* only once worst_edges is built.
CheapFormInBatch ==
    /\ \A n \in 1..Len(calls) :
        /\ calls[n].pass = "batch" => calls[n].fn \in {"average", "p2p"}
        /\ calls[n].pass = "report" => calls[n].fn \in {"average", "path"}
        /\ calls[n].fn = "path" => pc \in {"report", "done", "crashed"}
    /\ Cardinality({n \in 1..Len(calls) : calls[n].fn = "path"}) <= Len(worst_edges)

RECURSIVE BinSum(_)
\* sum of bin key times numeric count, in tenths of dBm
BinSum(entries) ==
    IF entries = <<>> THEN 0
    ELSE (IF Head(entries).v.t = "num" THEN Head(entries).k * Head(entries).v.v ELSE 0)
            + BinSum(Tail(entries))

\* the frames of records compute_residuals has built
Frames == {results, df, itm_profile_result}

\* C7: in every record, the stored gains are the link's gains divided by 10,
\* measured_rssi is the weighted mean of the histogram, measured_loss is
\* -(measured_rssi - rx gain - tx power - tx gain), residual is exactly
\* measured_loss - itm_loss, and that residual is the value that was compared
\* with threshold_db and logged.
C7_ResidualIsDifference ==
    \A frame \in Frames : \A i \in 1..Len(frame) :
        LET r == frame[i]
            pair == DocOf(r.src).asserted_pair
        IN  /\ r.tx_antenna_gain_dB.n * 10 = pair.beaconer_gain * r.tx_antenna_gain_dB.d
            /\ r.rx_antenna_gain_dB.n * 10 = pair.witness_gain * r.rx_antenna_gain_dB.d
            /\ r.transmit_power_dBm = pair.beaconer_tx_power
            /\ r.measured_rssi.n * 10 * CountSum(pair.signal_hist.v)
                  = BinSum(pair.signal_hist.v) * r.measured_rssi.d
            /\ r.measured_loss =
                  RNeg(RSub(RSub(RSub(r.measured_rssi, r.rx_antenna_gain_dB),
                                 RInt(r.transmit_power_dBm)),
                            r.tx_antenna_gain_dB))
            /\ r.residual = RSub(r.measured_loss, RInt(r.itm_loss))
            /\ r.residual.n * cfg.threshold_db.d < cfg.threshold_db.n * r.residual.d
            /\ \E n \in 1..Len(log) :
                  /\ log[n].src = r.src
                  /\ log[n].msg = "Model residual"
                  /\ log[n].val = r.residual

\* C7: a record with gains 0 and 1.2 dB, measured loss 110.7 dB and model loss
\* 144 dB carries the residual -33.3 dB.
C7_Witness ==
    \E i \in 1..Len(results) :
        /\ results[i].rx_antenna_gain_dB = [n |-> 6, d |-> 5]
        /\ results[i].measured_loss = [n |-> 1107, d |-> 10]
        /\ results[i].itm_loss = 144
        /\ results[i].residual = [n |-> -333, d |-> 10]

\* C8: a record carries the link's frequency, strictly between 400 MHz and
\* 1000 MHz; an evaluated link whose frequency is <= 400e6 or >= 1000e6 has no
\* record, no residual and no numeric routine run for it; a link is logged
\* as out of range only if its frequency is.
C8_FrequencyOpenInterval ==
    /\ \A frame \in Frames : \A i \in 1..Len(frame) :
        /\ frame[i].frequency_hz = DocOf(frame[i].src).asserted_pair.beaconer_freq
        /\ 400000000 < frame[i].frequency_hz
        /\ frame[i].frequency_hz < 1000000000
    /\ \A r \in EvaluatedRows :
        LET src == edge_data[r].src
            f == DocOf(src).asserted_pair.beaconer_freq
        IN  (f <= 400000000 \/ f >= 1000000000) =>
                /\ RecordsOf(results, src) = {}
                /\ BatchLines(src, "Model residual") = {}
                /\ \A n \in 1..Len(calls) : calls[n].src # src
    /\ \A n \in 1..Len(log) :
        log[n].msg = "Frequency out of expected range" =>
            LET f == DocOf(log[n].src).asserted_pair.beaconer_freq
            IN  f <= 400000000 \/ f >= 1000000000

\* C8: a link at exactly 1000 MHz was rejected for its frequency and skipped.
C8_Witness ==
    \E r \in EvaluatedRows :
        /\ DocOf(edge_data[r].src).asserted_pair.beaconer_freq = 1000000000
        /\ BatchLines(edge_data[r].src, "Frequency out of expected range") # {}
        /\ RecordsOf(results, edge_data[r].src) = {}

\* the height a record must carry for an asserted height h
Clamped(h) == IF h < 1 THEN 1 ELSE IF h > 50 THEN 50 ELSE h

\* C9: the antenna heights of every record are the asserted heights clamped
\* to [1, 50] (0 -> 1, 75 -> 50, 25 -> 25), and validation never rejects a
\* link for its height.
C9_HeightsClamped ==
    /\ \A frame \in Frames : \A i \in 1..Len(frame) :
        LET pair == DocOf(frame[i].src).asserted_pair
        IN  /\ frame[i].tx_antenna_height_m \in 1..50
            /\ frame[i].rx_antenna_height_m \in 1..50
            /\ frame[i].tx_antenna_height_m = Clamped(pair.beaconer_elevation.v)
            /\ frame[i].rx_antenna_height_m = Clamped(pair.witness_elevation.v)
    /\ \A n \in 1..Len(log) : log[n].msg # "Invalid asserted height"

\* C9: a record of a link asserted at 0 m and 75 m carries 1 m and 50 m.
C9_Witness ==
    \E i \in 1..Len(results) :
        /\ DocOf(results[i].src).asserted_pair.beaconer_elevation = [t |-> "num", v |-> 0]
        /\ DocOf(results[i].src).asserted_pair.witness_elevation = [t |-> "num", v |-> 75]
        /\ results[i].tx_antenna_height_m = 1
        /\ results[i].rx_antenna_height_m = 50

\* the row's two endpoints can be refined, and its histogram is a mapping
Refinable(r) ==
    LET doc == DocOf(edge_data[r].src)
    IN  /\ doc.asserted_pair.t = "pair"
        /\ doc.asserted_pair.beaconer_elevation.t = "num"
        /\ doc.asserted_pair.witness_elevation.t = "num"
        /\ doc.asserted_pair.beaconer_geo_loc.t = "num"
        /\ doc.asserted_pair.witness_geo_loc.t = "num"
        /\ doc.env.beaconer_ring # <<>>
        /\ doc.env.witness_ring # <<>>
        /\ doc.asserted_pair.signal_hist.t = "dict"

\* C10: np.average is only ever handed a positive total weight, the sum of the
\* link's numeric counts; a link whose histogram has no entries or sums to zero
\* is skipped: its iteration ends normally with one log line, no record and no
\* numeric routine run for it.
C10_EmptyHistogramRejected ==
    /\ \A n \in 1..Len(calls) :
        calls[n].fn = "average" =>
            /\ calls[n].w > 0
            /\ calls[n].w = CountSum(DocOf(calls[n].src).asserted_pair.signal_hist.v)
    /\ \A r \in 1..Len(edge_data) :
        LET src == edge_data[r].src
            hist == DocOf(src).asserted_pair.signal_hist.v
        IN  (Attempted(r) /\ Refinable(r) /\ (Len(hist) = 0 \/ CountSum(hist) = 0)) =>
                /\ r \in EvaluatedRows
                /\ RecordsOf(results, src) = {}
                /\ \A n \in 1..Len(calls) : calls[n].src # src
                /\ Cardinality({n \in 1..Len(log) :
                        log[n].pass = "batch" /\ log[n].src = src}) = 1

\* C10: a link whose counts are all non-numeric, otherwise valid, was skipped
\* for its zero total weight.
C10_Witness ==
    \E r \in EvaluatedRows :
        LET hist == DocOf(edge_data[r].src).asserted_pair.signal_hist.v
        IN  /\ Len(hist) = 2
            /\ \A e \in 1..Len(hist) : hist[e].v.t # "num"
            /\ BatchLines(edge_data[r].src, "All signal histogram weights are zero") # {}

\* C11: in every report card drawn for a profile of at least 2 samples, the
\* Fresnel radius (the square root of the radicand) is exactly 0 at the first
\* and at the last sample, so the upper and lower bounds lie on the
\* line-of-sight line there, which runs from the first elevation plus the
\* transmitter height to the last elevation plus the receiver height
C11_FresnelZeroAtEndpoints ==
    \A k \in 1..Len(report_cards) :
        LET card == report_cards[k]
            a == reports[k]
            n == Len(a.terrain_profile_distances)
        IN  n >= 2 =>
                /\ a.frequency_hz > 0
                /\ \A i \in {1, n} :
                    /\ card.fresnel_radius_sq[i] = RInt(0)
                    /\ OnLine(card.upper[i]) /\ card.upper[i].base = card.line[i]
                    /\ OnLine(card.lower[i]) /\ card.lower[i].base = card.line[i]
                /\ card.line[1] =
                       RInt(a.terrain_profile_elevations[1] + a.tx_antenna_height_m)
                /\ card.line[n] =
                       RInt(a.terrain_profile_elevations[n] + a.rx_antenna_height_m)

\* a card of at least 3 samples whose radius is positive between the endpoints
C11_Witness ==
    \E k \in 1..Len(report_cards) :
        /\ Len(report_cards[k].line) >= 3
        /\ \A i \in 2..(Len(report_cards[k].line) - 1) :
               RLt(RInt(0), report_cards[k].fresnel_radius_sq[i])
        /\ OnLine(report_cards[k].upper[Len(report_cards[k].line)])

\* the witnesses (source identifiers) that have an edge-flagged link in the batch
EdgeWitnesses == {DocOf(df[i].src)._to : i \in {j \in 1..Len(df) : df[j].edge_flag}}

\* the links whose record BatchSelector selected
SelectedLinks == {worst_edges[k].src : k \in 1..Len(worst_edges)}

\* C12: when the worker has finished, every witness with at least one
\* edge-flagged link in the batch has had exactly one report record handed to
\* the renderer, that record being for the link selected for that witness
\* (same beaconer and witness), and no report record is for a witness without
\* an edge-flagged link or for a link that was not selected.
C12_OneReportPerSelectedWitness ==
    pc = "done" =>
        /\ \A w \in EdgeWitnesses :
              \E i \in 1..Len(reports) :
                  /\ DocOf(reports[i].src)._to = w
                  /\ reports[i].src \in SelectedLinks
                  /\ \A j \in 1..Len(reports) :
                        DocOf(reports[j].src)._to = w => j = i
        /\ \A i \in 1..Len(reports) :
              /\ DocOf(reports[i].src)._to \in EdgeWitnesses
              /\ reports[i].src \in SelectedLinks

\* C13: the beaconer and witness identifiers of every result record, of every
\* row of the output pair set and of every report are the source identifiers
\* of the link with only the 'hotspots/' prefix removed (putting the prefix
\* back gives the source identifier), and two records of links with distinct
\* source identifiers never carry the same pair of output identifiers.
C13_OnlyPrefixRemoved ==
    /\ \A frame \in Frames : \A i \in 1..Len(frame) :
          /\ DocId(frame[i].beaconer_pubkey) = DocOf(frame[i].src)._from
          /\ DocId(frame[i].witness_pubkey) = DocOf(frame[i].src)._to
    /\ \A k \in 1..Len(output_csv) :
          \E i \in 1..Len(df) :
              /\ DocId(output_csv[k].beaconer_pubkey) = DocOf(df[i].src)._from
              /\ DocId(output_csv[k].witness_pubkey) = DocOf(df[i].src)._to
    /\ \A k \in 1..Len(reports) :
          /\ DocId(reports[k].beaconer_pubkey) = DocOf(reports[k].src)._from
          /\ DocId(reports[k].witness_pubkey) = DocOf(reports[k].src)._to
          /\ reports[k].src \in SelectedLinks
    /\ \A i, j \in 1..Len(df) :
          df[i].src # df[j].src =>
              \/ df[i].beaconer_pubkey # df[j].beaconer_pubkey
              \/ df[i].witness_pubkey # df[j].witness_pubkey

\* the record of the latest report-pass compute_residuals and the card drawn
\* from it
ReportedRecord == itm_profile_result[1]
ReportedCard == report_cards[Len(report_cards)]

RECURSIVE Concat(_)
\* the sequences of a sequence, joined in order
Concat(ss) == IF ss = <<>> THEN <<>> ELSE Head(ss) \o Concat(Tail(ss))

\* what holds of _yield_hotspot_pubkeys at every point of its run
PagerSafe ==
    /\ \A i \in 1..Len(batches) : batches[i] # <<>> /\ batches[i] = queries[i].results
    /\ \A i \in 1..Len(queries) :
          /\ queries[i].offset = (i - 1) * batch_size
          /\ queries[i].count = batch_size
          /\ queries[i].results = <<>> => (i = Len(queries) /\ gen = "returned")
    /\ Len(queries) <= Len(batches) + 1
    /\ max_batches # NULL => Len(batches) <= max_batches.v
    /\ (gen = "returned" /\ max_batches = NULL) =>
          LET all == Concat(batches)
          IN  /\ {all[i] : i \in 1..Len(all)} = hotspots
              /\ \A i, j \in 1..Len(all) : i < j => all[i] < all[j]

\* C15: over an unchanging finite collection and batch_size >= 1 the pager
\* eventually returns; throughout, it has yielded only non-empty batches, has
\* queried offsets 0, batch_size, 2*batch_size, ... in that order, has yielded
\* at most max_batches batches when max_batches is given and has stopped at the
\* first empty query result; once it has returned with max_batches not given,
\* the batches concatenated are every key of the collection exactly once in
\* ascending key order.
C15_PagerTerminatesAndCovers ==
    /\ <>(gen = "returned")
    /\ [](batch_size >= 1 => PagerSafe)

\* the pager has returned after two batches, the second shorter than
\* batch_size, and a final empty query, max_batches not given
C15_Witness ==
    /\ gen = "returned"
    /\ max_batches = NULL
    /\ Len(batches) = 2
    /\ Len(batches[2]) < batch_size
    /\ Len(queries) = 3
    /\ Len(files) = 2

====
